---- MODULE Spec2Model ----
(***************************************************************************)
(* A model of fruits/src/lib.rs: stars(), the osu!catch star calculation.  *)
(*                                                                         *)
(* stars() is a single sequential pass.  Its state is the locals of the    *)
(* function: the position of the lazy hit-object iterator (scan +          *)
(* filter_map + flatten), the shared tick buffer, the counters, the        *)
(* hyperdash accumulators, the section boundary, prev/curr/next.  One      *)
(* action is one step of that pass.                                        *)
(*                                                                         *)
(* Numbers.  The source computes in f32.  Under Spec every quantity is an  *)
(* integer below 2^24 and every division that the chosen inputs cause is   *)
(* exact (ExactArithmetic checks it), so f32 arithmetic and integer        *)
(* arithmetic agree on them.  Times are milliseconds, distances are osu!   *)
(* pixels, a speed multiplier is held in hundredths (100 is 1.0) and a     *)
(* clock rate in halves (2 is 1.0, 3 is 1.5).  Under SpecF32 times keep    *)
(* their f32 width: a value is <<m, e>>, meaning m * 2^e with a 24 bit     *)
(* mantissa, and every operation rounds to nearest, ties to even.          *)
(*                                                                         *)
(* The modules catch_object, curve, difficulty_object and movement are     *)
(* not part of the source at hand.  A curve position is the term           *)
(* <<"curve", curve, distance>>, the hyperdash accumulators are terms      *)
(* over the pair classified, and Movement is the log of the calls made     *)
(* on it.                                                                  *)
(***************************************************************************)
EXTENDS Integers, Sequences, FiniteSets, TLC

VARIABLES
    map,                  \* the parsed Beatmap (input)
    mods,                 \* the mods (input): hr flag and clock rate
    pc,                   \* position inside stars()
    idx,                  \* number of hit objects the scan has consumed
    ticks,                \* `ticks`, the buffer shared by all sliders
    buf,                  \* rest of the FruitOrJuice item being flattened
    last_pos, last_time,  \* the scan state (HR business)
    fruits, droplets,     \* the counters
    underflow,            \* a usize subtraction went below zero
    prev, curr, next,     \* Option<CatchObject>: <<>> or <<object>>
    last_direction, last_excess,
    current_section_end,
    h,                    \* the DifficultyObject being processed
    calls,                \* calls made on CatchObject / Movement, in order
    emitted,              \* catch objects the iterator has yielded, in order
    expanded,             \* the locals of every slider expansion, in order
    result,               \* <<>> or <<DifficultyAttributes>>
    calculator            \* the fields of the PpCalculator

vars == <<calculator, map, mods, pc, idx, ticks, buf, last_pos, last_time, fruits,
          droplets, underflow, prev, curr, next, last_direction, last_excess,
          current_section_end, h, calls, emitted, expanded, result>>

(***************************************************************************)
(* Program constants                                                       *)
(***************************************************************************)
SECTION_LENGTH == 750

DefaultBeatLen == 1000

DefaultSpeedMultiplier == 100

TickVersion == 8

(***************************************************************************)
(* Bounds of the model                                                     *)
(***************************************************************************)
MaxObjects == 3

MaxRepeats == 3

\* The sections closed in one run under SpecF32.
MaxSections == 12

\* The greatest count handed to fruits(), droplets() and tiny_droplets().
MaxPreset == 1

\* The greatest count handed to misses().
MaxMisses == 2

(***************************************************************************)
(* Helpers                                                                 *)
(***************************************************************************)
Max(a, b) == IF a >= b THEN a ELSE b

Min(a, b) == IF a <= b THEN a ELSE b

Reverse(s) == [i \in 1..Len(s) |-> s[Len(s) + 1 - i]]

Last(s) == s[Len(s)]

\* usize subtraction: the flag tells that the true difference is negative
\* (a panic in a debug build, a wrapped value in a release build).
USub(a, b) == [value |-> IF a >= b THEN a - b ELSE 0, underflow |-> a < b]

(***************************************************************************)
(* Inputs: hit objects, control points, maps, mods                         *)
(***************************************************************************)
Circle(x, t) == [kind |-> "Circle", pos |-> x, start_time |-> t]

Spinner(t) == [kind |-> "Spinner", pos |-> 256, start_time |-> t]

Hold(t) == [kind |-> "Hold", pos |-> 256, start_time |-> t]

Slider(x, t, pl, r, cps, pt) ==
    [kind |-> "Slider", pos |-> x, start_time |-> t, pixel_len |-> pl,
     repeats |-> r, curve_points |-> cps, path_type |-> pt]

PathTypes == {"Linear", "Bezier", "Catmull", "PerfectCurve"}

\* Control points by count (x coordinates; the first is the slider's head).
CurvePoints(n) == SubSeq(<<64, 114, 164, 264>>, 1, n)

TimingPoint(t, b) == [time |-> t, beat_len |-> b]

DifficultyPoint(t, s) == [time |-> t, speed_multiplier |-> s]

Beatmap(objs, tps, dps, rate, ver) ==
    [hit_objects |-> objs, timing_points |-> tps, difficulty_points |-> dps,
     sv |-> 1, tick_rate |-> rate, version |-> ver]

NoMod == [hr |-> FALSE, clock_rate |-> 2]

HardRockDoubleTime == [hr |-> TRUE, clock_rate |-> 3]

\* The hit objects of the general maps: a shape is a hit object at time 0.
Shapes ==
    { Circle(64, 0), Spinner(0), Hold(0),
      Slider(64, 0, 100, 1, CurvePoints(2), "Linear"),
      Slider(64, 0, 100, MaxRepeats, CurvePoints(4), "PerfectCurve") }

FirstTimes == {1000}

\* The gaps between one hit object and the next, repeated in turn.
Gaps == { <<500>>, <<2000>>, <<500, 2000>>, <<2000, 500>> }

RECURSIVE TimelineOf(_, _, _)
\* The start times of n hit objects, the first at t, that gaps g leave.
TimelineOf(t, g, n) ==
    IF n = 1 THEN <<t>>
    ELSE LET s == TimelineOf(t, g, n - 1)
         IN  Append(s, Last(s) + g[((n - 2) % Len(g)) + 1])

\* The non-decreasing start-time sequences of length n.
Timelines(n) ==
    IF n = 0 THEN { <<>> }
    ELSE { TimelineOf(t, g, n) : t \in FirstTimes, g \in Gaps }

ObjectsAt(shapes, times) ==
    [i \in 1..Len(times) |-> [shapes[i] EXCEPT !.start_time = times[i]]]

GeneralSettings ==
    { [tick_rate |-> 1, mods |-> NoMod],
      [tick_rate |-> 2, mods |-> HardRockDoubleTime] }

GeneralTiming == << TimingPoint(0, 400) >>

GeneralMaps ==
    UNION { { [map |-> Beatmap(ObjectsAt(sh, tl), GeneralTiming, <<>>,
                               s.tick_rate, TickVersion),
               mods |-> s.mods] :
                sh \in [1..n -> Shapes], tl \in Timelines(n),
                s \in GeneralSettings } : n \in 0..MaxObjects }

\* The slider maps: one slider followed by a circle.
SliderStarts == {0, 600, 1200}

SliderLengths == {0, 100, 200}

TimingConfigs ==
    { << TimingPoint(600, 400) >>,
      << TimingPoint(0, 400), TimingPoint(1200, 200) >> }

DifficultyConfigs ==
    { << >>,
      << DifficultyPoint(600, 200) >>,
      << DifficultyPoint(0, 50), DifficultyPoint(1200, 2000) >> }

\* A slider of every start, length and repeat count under every timing
\* set-up, tick rate and version.
TimingMaps ==
    { [map |-> Beatmap(<< Slider(64, t, pl, r, CurvePoints(2), "Linear"),
                          Circle(300, t + 2000) >>,
                       tps, dps, rate, ver),
       mods |-> NoMod] :
        t \in SliderStarts, pl \in SliderLengths, r \in 1..MaxRepeats,
        tps \in TimingConfigs, dps \in DifficultyConfigs, rate \in {1, 2},
        ver \in {TickVersion - 1, TickVersion} }

\* A slider of every tag, control point count, length and repeat count.
PathMaps ==
    { [map |-> Beatmap(<< Slider(64, t, pl, r, CurvePoints(n), pt),
                          Circle(300, t + 2000) >>,
                       GeneralTiming, << >>, rate, TickVersion),
       mods |-> NoMod] :
        t \in FirstTimes, pl \in SliderLengths, r \in 1..MaxRepeats,
        n \in 2..4, pt \in PathTypes, rate \in {1, 2} }

SliderMaps == TimingMaps \cup PathMaps

(***************************************************************************)
(* Control point lookup (lines 22-26, 69-95)                               *)
(***************************************************************************)
\* slice::binary_search_by on points sorted by time: Ok(i) for an element
\* whose time is the target, else Err(i), i the number of elements before
\* the insertion point.  Indices are 0-based as in the source.
binary_search(slice, target) ==
    LET hits == { i \in 1..Len(slice) : slice[i].time = target }
        below == { i \in 1..Len(slice) : slice[i].time < target }
    IN  IF hits # {}
        THEN [ok |-> TRUE, idx |-> (CHOOSE i \in hits : TRUE) - 1]
        ELSE [ok |-> FALSE, idx |-> Cardinality(below)]

ActiveTiming(m, start_time) ==
    LET r == binary_search(m.timing_points, start_time)
    IN  IF r.ok
        THEN [beat_len |-> m.timing_points[r.idx + 1].beat_len,
              timing_time |-> m.timing_points[r.idx + 1].time]
        ELSE IF r.idx = 0
        THEN [beat_len |-> DefaultBeatLen, timing_time |-> 0]
        ELSE [beat_len |-> m.timing_points[r.idx].beat_len,
              timing_time |-> m.timing_points[r.idx].time]

ActiveDifficulty(m, start_time) ==
    LET r == binary_search(m.difficulty_points, start_time)
    IN  IF r.ok
        THEN [speed_multiplier |-> m.difficulty_points[r.idx + 1].speed_multiplier,
              diff_time |-> m.difficulty_points[r.idx + 1].time]
        ELSE IF r.idx = 0
        THEN [speed_multiplier |-> DefaultSpeedMultiplier, diff_time |-> 0]
        ELSE [speed_multiplier |-> m.difficulty_points[r.idx].speed_multiplier,
              diff_time |-> m.difficulty_points[r.idx].time]

(***************************************************************************)
(* Slider expansion (lines 58-181)                                         *)
(***************************************************************************)
\* 100.0 * sv / tick_rate, divided from version 8 on by
\* (100.0 / speed_multiplier).max(10.0).min(1000.0) / 100.0
TickDistance(m, speed_multiplier) ==
    LET base == (100 * m.sv) \div m.tick_rate
    IN  IF m.version >= TickVersion
        THEN (base * 100) \div Min(Max((100 * 100) \div speed_multiplier, 10), 1000)
        ELSE base

\* Mutant of Spm: the comparison turned round.
Spm_Predates(timing_time, diff_time, speed_multiplier) ==
    IF timing_time < diff_time THEN 100 ELSE speed_multiplier

\* Lines 103-107.
Spm(timing_time, diff_time, speed_multiplier) ==
    IF timing_time > diff_time THEN 100 ELSE speed_multiplier

\* repeats * beat_len * pixel_len / (sv * spm) / 100.0, spm in hundredths
Duration(m, o, beat_len, spm) ==
    (o.repeats * beat_len * o.pixel_len) \div (m.sv * spm)

\* Mutant of PathTypeUsed: a perfect curve is never taken for a bezier.
PathTypeUsed_AsTagged(path_type, n_points) ==
    IF n_points = 2 THEN "Linear" ELSE path_type

\* Lines 111-117.
PathTypeUsed(path_type, n_points) ==
    IF path_type = "PerfectCurve" /\ n_points > 3 THEN "Bezier"
    ELSE IF n_points = 2 THEN "Linear"
    ELSE path_type

\* The Curve constructor called for the path type.
CurveOf(path_type, curve_points) ==
    IF path_type = "Linear"
    THEN <<"linear", <<curve_points[1], curve_points[2]>> >>
    ELSE IF path_type = "Bezier" THEN <<"bezier", curve_points>>
    ELSE IF path_type = "Catmull" THEN <<"catmull", curve_points>>
    ELSE <<"perfect", curve_points>>

\* Curve::point_at_distance: the position is kept as the term of the call.
point_at_distance(curve, dist) == <<"curve", curve, dist>>

\* duration * (tick_distance / (pixel_len * repeats)); read only when a
\* tick is pushed, which needs pixel_len > 0.
TimeAdd(o, duration, tick_distance) ==
    IF o.pixel_len * o.repeats = 0 THEN 0
    ELSE (duration * tick_distance) \div (o.pixel_len * o.repeats)

\* Mutant of BeforeTarget: the eighth of a tick added to the target.
BeforeTarget_Added(current_distance, pixel_len, tick_distance) ==
    8 * current_distance < 8 * pixel_len + tick_distance

\* Lines 129 and 132: current_distance < pixel_len - tick_distance / 8.0
BeforeTarget(current_distance, pixel_len, tick_distance) ==
    8 * current_distance < 8 * pixel_len - tick_distance

RECURSIVE TickLoop(_, _, _)
\* while current_distance < target { ticks.push(..); current_distance += .. }
TickLoop(tks, current_distance, l) ==
    IF BeforeTarget(current_distance, l.pixel_len, l.tick_distance)
    THEN TickLoop(Append(tks, [pos |-> point_at_distance(l.curve, current_distance),
                               time |-> l.start_time + l.time_add * (Len(tks) + 1)]),
                  current_distance + l.tick_distance, l)
    ELSE tks

\* Mutant of TimeOffset: the whole duration taken for the span's.
TimeOffset_WholeDuration(l, repeat_id) == l.duration * repeat_id

\* Lines 149 and 161: (duration / *repeats as f32) * repeat_id as f32
TimeOffset(l, repeat_id) == (l.duration \div l.repeats) * repeat_id

RECURSIVE InnerSpans(_, _, _, _)
\* for repeat_id in 1..repeats - 1: the reverse point, then ticks.reverse()
\* and the ticks again, with the times of the first span.
InnerSpans(repeat_id, objs, tks, l) ==
    IF repeat_id >= l.repeats - 1 THEN [objects |-> objs, ticks |-> tks]
    ELSE LET dist == (repeat_id % 2) * l.pixel_len
             time_offset == TimeOffset(l, repeat_id)
             rev == Reverse(tks)
         IN  InnerSpans(repeat_id + 1,
                        Append(objs, [pos |-> point_at_distance(l.curve, dist),
                                      time |-> l.start_time + time_offset]) \o rev,
                        rev, l)

\* Lines 139-173: the slider's objects and what is left in `ticks`.
SliderObjects(o, tks, l) ==
    LET head == << [pos |-> <<"pos", o.pos>>, time |-> o.start_time] >>
        body ==
            IF l.repeats <= 1
            THEN [objects |-> head \o tks, ticks |-> << >>]
            ELSE LET inner == InnerSpans(1, head \o tks, tks, l)
                     dist == ((l.repeats - 1) % 2) * l.pixel_len
                     time_offset == TimeOffset(l, l.repeats - 1)
                 IN  [objects |->
                          Append(inner.objects,
                                 [pos |-> point_at_distance(l.curve, dist),
                                  time |-> l.start_time + time_offset])
                          \o Reverse(inner.ticks),
                      ticks |-> << >>]
        dist_end == (l.repeats % 2) * l.pixel_len
    IN  [objects |-> Append(body.objects,
                            [pos |-> point_at_distance(l.curve, dist_end),
                             time |-> o.start_time + l.duration]),
         ticks |-> body.ticks]

\* The locals of the closure for slider o, given the buffer `ticks`.
ExpandSlider(m, o, tks) ==
    LET tp == ActiveTiming(m, o.start_time)
        dp == ActiveDifficulty(m, o.start_time)
        tick_distance == TickDistance(m, dp.speed_multiplier)
        spm == Spm(tp.timing_time, dp.diff_time, dp.speed_multiplier)
        duration == Duration(m, o, tp.beat_len, spm)
        path_type == PathTypeUsed(o.path_type, Len(o.curve_points))
        l == [start_time |-> o.start_time, pixel_len |-> o.pixel_len,
              repeats |-> o.repeats, tick_distance |-> tick_distance,
              duration |-> duration, curve |-> CurveOf(path_type, o.curve_points),
              time_add |-> TimeAdd(o, duration, tick_distance)]
        filled == TickLoop(tks, tick_distance, l)
        so == SliderObjects(o, filled, l)
    IN  [beat_len |-> tp.beat_len, timing_time |-> tp.timing_time,
         speed_multiplier |-> dp.speed_multiplier, diff_time |-> dp.diff_time,
         tick_distance |-> tick_distance, spm |-> spm, duration |-> duration,
         path_type |-> path_type, curve |-> l.curve, n_ticks |-> Len(filled),
         slider_objects |-> so.objects, ticks |-> so.ticks]

(***************************************************************************)
(* Collaborators that are not in the source at hand                        *)
(***************************************************************************)
\* CatchObject::new((pos, time)); n is the object's place in the stream
\* and obj the hit object it comes from.
CatchObject(pos, time, n, obj) ==
    [pos |-> pos, time |-> time, n |-> n, obj |-> obj]

\* CatchObject::with_hr(last_pos, last_time): the moved position is the
\* term of the call.
with_hr(o, lpos, ltime) == [o EXCEPT !.pos = <<"hr", o.pos, lpos, ltime>>]

\* calculate_catch_width(attributes.cs) / 2.0 / ALLOWED_CATCH_RANGE
half_catcher_width == <<"half_catcher_width">>

NoDirection == <<"direction", 0>>

\* CatchObject::init_hyper_dash(half_catcher_width, next, last_direction,
\* last_excess): what it leaves in the two accumulators.
init_hyper_dash(self, nxt, dir, excess) ==
    [last_direction |-> <<"direction", self.n, nxt.n>>,
     last_excess |-> <<"excess", self.n, nxt.n, dir, excess>>]

\* DifficultyObject::new(base, last, half_catcher_width, clock_rate)
DifficultyObject(base, last) == [base |-> base, last |-> last]

\* movement.difficulty_value().sqrt() * STAR_SCALING_FACTOR, as the term
\* of the peaks it is computed from.
StarsOf(cs) ==
    <<"stars", Len(SelectSeq(cs, LAMBDA c : c[1] = "save_current_peak"))>>

DefaultAttributes ==
    [stars |-> <<"stars", 0>>, max_combo |-> 0, n_fruits |-> 0, n_droplets |-> 0]

(***************************************************************************)
(* stars(): lines 30-261                                                   *)
(***************************************************************************)
SectionLen(md) == (SECTION_LENGTH * md.clock_rate) \div 2

\* (start_time / section_len).ceil() * section_len
FirstSectionEnd(start_time, section_len) ==
    ((start_time + section_len - 1) \div section_len) * section_len

Pulling == {"prev", "curr", "next"}

\* Mutant of TooFewObjects: the early exit taken for an empty map only.
TooFewObjects_OnlyEmpty(m) == Len(m.hit_objects) < 1

\* Line 31.
TooFewObjects(m) == Len(m.hit_objects) < 2

\* Mutant of FruitsAfterCircle: the circle is not counted.
FruitsAfterCircle_NotCounted(f) == f

\* Line 54.
FruitsAfterCircle(f) == f + 1

\* Mutant of SliderDroplets: the slider's head is left among the droplets.
SliderDroplets_HeadCounted(len, repeats) == USub(len, repeats)

\* Line 176: slider_objects.len() - 1 - *repeats, in usize.
SliderDroplets(len, repeats) ==
    LET a == USub(len, 1)
        b == USub(a.value, repeats)
    IN  [value |-> b.value, underflow |-> a.underflow \/ b.underflow]

\* Mutant of SectionOver: a section is closed by a transition that falls
\* on its end.
SectionOver_AtBoundary(time, section_end) == time >= section_end

\* Lines 223 and 243: h.base.time > current_section_end
SectionOver(time, section_end) == time > section_end

\* The calls of one kind, in the order they were made.
CallsOf(name) == SelectSeq(calls, LAMBDA c : c[1] = name)

\* The iterator hands obj to the `let` or `for` that called next().
Yield(obj) ==
    /\ emitted' = Append(emitted, obj)
    /\ CASE pc = "prev" -> /\ prev' = <<obj>>
                           /\ pc' = "curr"
                           /\ UNCHANGED <<curr, next>>
         [] pc = "curr" -> /\ curr' = <<obj>>
                           /\ pc' = "hyper_first"
                           /\ UNCHANGED <<prev, next>>
         [] pc = "next" -> /\ next' = <<obj>>
                           /\ pc' = "hyper"
                           /\ UNCHANGED <<prev, curr>>

\* Lines 31-33.
EarlyExit ==
    /\ pc = "start"
    /\ TooFewObjects(map)
    /\ result' = <<DefaultAttributes>>
    /\ pc' = "done"
    /\ UNCHANGED <<calculator, map, mods, idx, ticks, buf, last_pos, last_time, fruits,
                   droplets, underflow, prev, curr, next, last_direction,
                   last_excess, current_section_end, h, calls, emitted, expanded>>

\* Lines 35-46 and 187-196: the locals are set up; the iterator is lazy.
Setup ==
    /\ pc = "start"
    /\ ~TooFewObjects(map)
    /\ last_direction' = NoDirection
    /\ last_excess' = half_catcher_width
    /\ current_section_end' =
           FirstSectionEnd(map.hit_objects[1].start_time, SectionLen(mods))
    /\ pc' = "prev"
    /\ UNCHANGED <<calculator, map, mods, idx, ticks, buf, last_pos, last_time, fruits,
                   droplets, underflow, prev, curr, next, h, calls, emitted,
                   expanded, result>>

\* Lines 275-284: the slider being flattened has objects left.
NextFromSlider ==
    /\ pc \in Pulling
    /\ buf # << >>
    /\ Yield(CatchObject(Head(buf).pos, Head(buf).time, Len(emitted) + 1, idx))
    /\ buf' = Tail(buf)
    /\ UNCHANGED <<calculator, map, mods, idx, ticks, last_pos, last_time, fruits, droplets,
                   underflow, last_direction, last_excess, current_section_end,
                   h, calls, expanded, result>>

\* Lines 47-57.
NextCircle ==
    /\ pc \in Pulling
    /\ buf = << >>
    /\ idx < Len(map.hit_objects)
    /\ LET o == map.hit_objects[idx + 1]
           c == CatchObject(<<"pos", o.pos>>, o.start_time, Len(emitted) + 1,
                            idx + 1)
       IN  /\ o.kind = "Circle"
           /\ Yield(IF mods.hr THEN with_hr(c, last_pos, last_time) ELSE c)
           /\ IF mods.hr
              THEN /\ last_pos' = <<"with_hr", o.pos, last_pos>>
                   /\ last_time' = <<"with_hr", o.start_time, last_time>>
              ELSE UNCHANGED <<last_pos, last_time>>
    /\ fruits' = FruitsAfterCircle(fruits)
    /\ idx' = idx + 1
    /\ UNCHANGED <<calculator, map, mods, ticks, buf, droplets, underflow, last_direction,
                   last_excess, current_section_end, h, calls, expanded, result>>

\* Lines 58-181.
NextSlider ==
    /\ pc \in Pulling
    /\ buf = << >>
    /\ idx < Len(map.hit_objects)
    /\ LET o == map.hit_objects[idx + 1]
           e == ExpandSlider(map, o, ticks)
           d == SliderDroplets(Len(e.slider_objects), o.repeats)
       IN  /\ o.kind = "Slider"
           /\ last_pos' = <<"some", o.pos + Last(o.curve_points) - o.curve_points[1]>>
           /\ last_time' = <<"time", o.start_time>>
           /\ ticks' = e.ticks
           /\ fruits' = fruits + 1 + o.repeats
           /\ droplets' = droplets + d.value
           /\ underflow' = (underflow \/ d.underflow)
           /\ expanded' = Append(expanded,
                                 [obj |-> idx + 1, first |-> Len(emitted) + 1,
                                  locals |-> e, fruits |-> 1 + o.repeats,
                                  droplets |-> d.value])
           /\ Yield(CatchObject(Head(e.slider_objects).pos,
                                Head(e.slider_objects).time, Len(emitted) + 1,
                                idx + 1))
           /\ buf' = Tail(e.slider_objects)
    /\ idx' = idx + 1
    /\ UNCHANGED <<calculator, map, mods, last_direction, last_excess, current_section_end,
                   h, calls, result>>

\* Line 182 and filter_map(identity): a spinner or hold yields nothing.
SkipObject ==
    /\ pc \in Pulling
    /\ buf = << >>
    /\ idx < Len(map.hit_objects)
    /\ map.hit_objects[idx + 1].kind \in {"Spinner", "Hold"}
    /\ idx' = idx + 1
    /\ UNCHANGED <<calculator, map, mods, pc, ticks, buf, last_pos, last_time, fruits,
                   droplets, underflow, prev, curr, next, last_direction,
                   last_excess, current_section_end, h, calls, emitted,
                   expanded, result>>

\* Lines 198-199: hit_objects.next().unwrap() on an exhausted iterator.
UnwrapNone ==
    /\ pc \in {"prev", "curr"}
    /\ buf = << >>
    /\ idx = Len(map.hit_objects)
    /\ pc' = "panic"
    /\ UNCHANGED <<calculator, map, mods, idx, ticks, buf, last_pos, last_time, fruits,
                   droplets, underflow, prev, curr, next, last_direction,
                   last_excess, current_section_end, h, calls, emitted,
                   expanded, result>>

\* Lines 201-206.
HyperFirst ==
    /\ pc = "hyper_first"
    /\ LET acc == init_hyper_dash(prev[1], curr[1], last_direction, last_excess)
       IN  /\ calls' = Append(calls, <<"init_hyper_dash", prev[1].n, curr[1].n,
                                       last_direction, last_excess>>)
           /\ last_direction' = acc.last_direction
           /\ last_excess' = acc.last_excess
    /\ pc' = "next"
    /\ UNCHANGED <<calculator, map, mods, idx, ticks, buf, last_pos, last_time, fruits,
                   droplets, underflow, prev, curr, next, current_section_end,
                   h, emitted, expanded, result>>

\* Mutant of HyperNext: every pair is classified from fresh accumulators.
HyperNext_FreshAccumulators ==
    /\ pc = "hyper"
    /\ LET acc == init_hyper_dash(curr[1], next[1], NoDirection, half_catcher_width)
       IN  /\ calls' = Append(calls, <<"init_hyper_dash", curr[1].n, next[1].n,
                                       NoDirection, half_catcher_width>>)
           /\ last_direction' = acc.last_direction
           /\ last_excess' = acc.last_excess
    /\ h' = <<DifficultyObject(curr[1], prev[1])>>
    /\ pc' = "sections"
    /\ UNCHANGED <<calculator, map, mods, idx, ticks, buf, last_pos, last_time, fruits,
                   droplets, underflow, prev, curr, next, current_section_end,
                   emitted, expanded, result>>

\* Lines 208-221: the loop body up to the DifficultyObject.
HyperNext ==
    /\ pc = "hyper"
    /\ LET acc == init_hyper_dash(curr[1], next[1], last_direction, last_excess)
       IN  /\ calls' = Append(calls, <<"init_hyper_dash", curr[1].n, next[1].n,
                                       last_direction, last_excess>>)
           /\ last_direction' = acc.last_direction
           /\ last_excess' = acc.last_excess
    /\ h' = <<DifficultyObject(curr[1], prev[1])>>
    /\ pc' = "sections"
    /\ UNCHANGED <<calculator, map, mods, idx, ticks, buf, last_pos, last_time, fruits,
                   droplets, underflow, prev, curr, next, current_section_end,
                   emitted, expanded, result>>

\* One iteration of `while h.base.time > current_section_end`.
CloseOneSection ==
    /\ SectionOver(h[1].base.time, current_section_end)
    /\ calls' = calls \o << <<"save_current_peak">>,
                            <<"start_new_section_from", current_section_end>> >>
    /\ current_section_end' = current_section_end + SectionLen(mods)
    /\ UNCHANGED <<calculator, map, mods, pc, idx, ticks, buf, last_pos, last_time, fruits,
                   droplets, underflow, prev, curr, next, last_direction,
                   last_excess, h, emitted, expanded, result>>

\* Lines 223-227.
CloseSection ==
    /\ pc = "sections"
    /\ CloseOneSection

\* Lines 229-232.
Process ==
    /\ pc = "sections"
    /\ ~SectionOver(h[1].base.time, current_section_end)
    /\ calls' = Append(calls, <<"process", h[1].base.n, h[1].last.n, h[1].base.time>>)
    /\ prev' = curr
    /\ curr' = next
    /\ next' = << >>
    /\ h' = << >>
    /\ pc' = "next"
    /\ UNCHANGED <<calculator, map, mods, idx, ticks, buf, last_pos, last_time, fruits,
                   droplets, underflow, last_direction, last_excess,
                   current_section_end, emitted, expanded, result>>

\* Lines 208 and 235-241: the iterator is exhausted, the loop is left.
LoopEnd ==
    /\ pc = "next"
    /\ buf = << >>
    /\ idx = Len(map.hit_objects)
    /\ h' = <<DifficultyObject(curr[1], prev[1])>>
    /\ pc' = "final_sections"
    /\ UNCHANGED <<calculator, map, mods, idx, ticks, buf, last_pos, last_time, fruits,
                   droplets, underflow, prev, curr, next, last_direction,
                   last_excess, current_section_end, calls, emitted, expanded,
                   result>>

\* Lines 243-248.
FinalCloseSection ==
    /\ pc = "final_sections"
    /\ CloseOneSection

\* Lines 250-260.
FinalProcess ==
    /\ pc = "final_sections"
    /\ ~SectionOver(h[1].base.time, current_section_end)
    /\ LET cs == calls \o << <<"process", h[1].base.n, h[1].last.n, h[1].base.time>>,
                             <<"save_current_peak">> >>
       IN  /\ calls' = cs
           /\ result' = << [stars |-> StarsOf(cs), n_fruits |-> fruits,
                            n_droplets |-> droplets,
                            max_combo |-> fruits + droplets] >>
    /\ h' = << >>
    /\ pc' = "done"
    /\ UNCHANGED <<calculator, map, mods, idx, ticks, buf, last_pos, last_time, fruits,
                   droplets, underflow, prev, curr, next, last_direction,
                   last_excess, current_section_end, emitted, expanded>>

Inputs == GeneralMaps \cup SliderMaps

\* The locals of stars() before its first statement.
StarsLocals ==
    /\ idx = 0
    /\ ticks = << >>
    /\ buf = << >>
    /\ last_pos = <<"none">>
    /\ last_time = <<"time", 0>>
    /\ fruits = 0
    /\ droplets = 0
    /\ underflow = FALSE
    /\ prev = << >>
    /\ curr = << >>
    /\ next = << >>
    /\ last_direction = << >>
    /\ last_excess = << >>
    /\ current_section_end = 0
    /\ h = << >>
    /\ calls = << >>
    /\ emitted = << >>
    /\ expanded = << >>
    /\ result = << >>

\* Lines 334-347: PpCalculator::new(map).
NewCalculator ==
    [attributes |-> << >>, n_fruits |-> << >>, n_droplets |-> << >>,
     n_tiny_droplets |-> << >>, n_tiny_droplet_misses |-> << >>,
     n_misses |-> 0, acc |-> << >>, underflow |-> FALSE]

\* stars() is called on one of the inputs.
InitOn(inputs) ==
    /\ \E i \in inputs : map = i.map /\ mods = i.mods
    /\ pc = "start"
    /\ calculator = NewCalculator
    /\ StarsLocals

Init == InitOn(Inputs)

Next ==
    \/ EarlyExit
    \/ Setup
    \/ NextFromSlider
    \/ NextCircle
    \/ NextSlider
    \/ SkipObject
    \/ UnwrapNone
    \/ HyperFirst
    \/ HyperNext
    \/ CloseSection
    \/ Process
    \/ LoopEnd
    \/ FinalCloseSection
    \/ FinalProcess

Spec == Init /\ [][Next]_vars

(***************************************************************************)
(* Spec computes in integers what the source computes in f32.  The two     *)
(* agree when every division is exact and every value is below 2^24:       *)
(* ExactArithmetic is an invariant of Spec.                                *)
(***************************************************************************)
ExactSlider(m, o) ==
    LET tp == ActiveTiming(m, o.start_time)
        dp == ActiveDifficulty(m, o.start_time)
        td == TickDistance(m, dp.speed_multiplier)
        spm == Spm(tp.timing_time, dp.diff_time, dp.speed_multiplier)
        dur == Duration(m, o, tp.beat_len, spm)
        base == (100 * m.sv) \div m.tick_rate
    IN  /\ (100 * m.sv) % m.tick_rate = 0
        /\ (100 * 100) % dp.speed_multiplier = 0
        /\ (base * 100) % Min(Max((100 * 100) \div dp.speed_multiplier, 10), 1000) = 0
        /\ (o.repeats * tp.beat_len * o.pixel_len) % (m.sv * spm) = 0
        /\ dur % o.repeats = 0
        /\ td > 0
        /\ o.pixel_len * o.repeats # 0 =>
               (dur * td) % (o.pixel_len * o.repeats) = 0

ExactArithmetic ==
    /\ \A i \in 1..Len(map.hit_objects) :
           map.hit_objects[i].kind = "Slider" => ExactSlider(map, map.hit_objects[i])
    /\ \A i \in 1..Len(emitted) : emitted[i].time < 2^24
    /\ (SECTION_LENGTH * mods.clock_rate) % 2 = 0

(***************************************************************************)
(* f32 arithmetic.  A finite f32 that is not negative is <<m, e>>, meaning *)
(* m * 2^e, with m = 0 or 2^23 <= m < 2^24.  Every operation gives the     *)
(* representable value nearest to the exact result, ties to the even       *)
(* mantissa.  The values of stars() stay far from overflow and from the    *)
(* subnormal range, which are left out.                                    *)
(***************************************************************************)
F32Zero == <<0, 0>>

\* n * 2^e followed by the round bit r and, below it, bits that are not
\* all zero exactly when s holds; n >= 2^23 unless r = 0 and s is false.
RECURSIVE F32Round(_, _, _, _)
F32Round(n, e, r, s) ==
    IF n = 0 THEN F32Zero
    ELSE IF n >= 2^24 THEN F32Round(n \div 2, e + 1, n % 2, s \/ r = 1)
    ELSE IF n < 2^23 THEN F32Round(2 * n, e - 1, 0, FALSE)
    ELSE LET m == IF r = 1 /\ (s \/ n % 2 = 1) THEN n + 1 ELSE n
         IN  IF m = 2^24 THEN <<2^23, e + 1>> ELSE <<m, e>>

\* The f32 literal of a natural number below 2^31.
F32(n) == F32Round(n, 0, 0, FALSE)

\* a + b
F32Add(a, b) ==
    IF a[1] = 0 THEN b
    ELSE IF b[1] = 0 THEN a
    ELSE LET hi == IF a[2] >= b[2] THEN a ELSE b
             lo == IF a[2] >= b[2] THEN b ELSE a
             d == hi[2] - lo[2]
             kept == IF d > 27 THEN 0 ELSE (8 * lo[1]) \div 2^d
             lost == IF d > 27 THEN TRUE ELSE (8 * lo[1]) % 2^d # 0
         IN  F32Round(8 * hi[1] + kept, hi[2] - 3, 0, lost)

\* a * b, the 48 bit product taken in 12 bit halves.
F32Mul(a, b) ==
    IF a[1] = 0 \/ b[1] = 0 THEN F32Zero
    ELSE LET ah == a[1] \div 2^12
             al == a[1] % 2^12
             bh == b[1] \div 2^12
             bl == b[1] % 2^12
             mid == ah * bl + al * bh
             lowsum == (mid % 2^12) * 2^12 + al * bl
             high == ah * bh + mid \div 2^12 + lowsum \div 2^24
             low == lowsum % 2^24
         IN  F32Round(4 * high + low \div 2^22, a[2] + b[2] + 22, 0,
                      low % 2^22 # 0)

\* k more bits of the quotient rem / d: <<quotient, remainder>>.
RECURSIVE QuotientBits(_, _, _, _)
QuotientBits(rem, d, k, acc) ==
    IF k = 0 THEN <<acc, rem>>
    ELSE IF 2 * rem >= d THEN QuotientBits(2 * rem - d, d, k - 1, 2 * acc + 1)
    ELSE QuotientBits(2 * rem, d, k - 1, 2 * acc)

\* a / b, b not zero.
F32Div(a, b) ==
    IF a[1] = 0 THEN F32Zero
    ELSE LET q == QuotientBits(a[1] % b[1], b[1], 25, a[1] \div b[1])
         IN  F32Round(q[1], a[2] - b[2] - 25, 0, q[2] # 0)

\* a.ceil()
F32Ceil(a) ==
    IF a[2] >= 0 \/ a[1] = 0 THEN a
    ELSE IF a[2] <= -24 THEN F32(1)
    ELSE LET unit == 2^(0 - a[2])
         IN  F32(a[1] \div unit + (IF a[1] % unit > 0 THEN 1 ELSE 0))

\* a > b
F32Gt(a, b) ==
    /\ a[1] # 0
    /\ \/ b[1] = 0
       \/ a[2] > b[2]
       \/ a[2] = b[2] /\ a[1] > b[1]

(***************************************************************************)
(* stars() with its times in f32, on maps of circles: lines 30-57 and      *)
(* 187-261.  The actions that read no time as a number (EarlyExit,         *)
(* NextCircle, HyperFirst, HyperNext, LoopEnd) are those of Spec; the      *)
(* section bookkeeping is restated over f32.                               *)
(***************************************************************************)
\* Mods::speed() as f32: 1.0, 1.5 (double time), 0.75 (half time).
F32NoMod == [hr |-> FALSE, clock_rate |-> F32(1)]

F32HardRockDoubleTime == [hr |-> TRUE, clock_rate |-> <<3 * 2^22, -23>>]

F32HalfTime == [hr |-> FALSE, clock_rate |-> <<3 * 2^22, -24>>]

\* Start times of the first hit object: 1 s, 2^30 ms, and 17,180,160,000
\* ms = 8,388,750 * 2^11, where neighbouring f32 values are 2048 apart.
F32FirstTimes == {F32(1000), F32(2^30), <<8388750, 11>>}

F32Gaps == {F32(500), F32(2000)}

RECURSIVE F32Timelines(_)
F32Timelines(n) ==
    IF n = 0 THEN {<< >>}
    ELSE IF n = 1 THEN {<<t>> : t \in F32FirstTimes}
    ELSE {Append(tl, F32Add(Last(tl), g)) : tl \in F32Timelines(n - 1),
                                            g \in F32Gaps}

F32Maps ==
    UNION { { [map |-> Beatmap([i \in 1..n |-> Circle(64 * i, tl[i])],
                               << >>, << >>, 1, TickVersion),
               mods |-> md] :
                 tl \in F32Timelines(n),
                 md \in {F32NoMod, F32HardRockDoubleTime, F32HalfTime} } :
            n \in 0..MaxObjects }

\* Line 194.
F32SectionLen(md) == F32Mul(F32(SECTION_LENGTH), md.clock_rate)

\* Lines 195-196.
F32FirstSectionEnd(start_time, section_len) ==
    F32Mul(F32Ceil(F32Div(start_time, section_len)), section_len)

\* Lines 35-46 and 187-196.
F32Setup ==
    /\ pc = "start"
    /\ ~TooFewObjects(map)
    /\ last_direction' = NoDirection
    /\ last_excess' = half_catcher_width
    /\ current_section_end' =
           F32FirstSectionEnd(map.hit_objects[1].start_time, F32SectionLen(mods))
    /\ pc' = "prev"
    /\ UNCHANGED <<calculator, map, mods, idx, ticks, buf, last_pos, last_time, fruits,
                   droplets, underflow, prev, curr, next, h, calls, emitted,
                   expanded, result>>

\* One iteration of `while h.base.time > current_section_end`.
F32CloseOneSection ==
    /\ F32Gt(h[1].base.time, current_section_end)
    /\ Len(CallsOf("start_new_section_from")) < MaxSections
    /\ calls' = calls \o << <<"save_current_peak">>,
                            <<"start_new_section_from", current_section_end>> >>
    /\ current_section_end' = F32Add(current_section_end, F32SectionLen(mods))
    /\ UNCHANGED <<calculator, map, mods, pc, idx, ticks, buf, last_pos, last_time, fruits,
                   droplets, underflow, prev, curr, next, last_direction,
                   last_excess, h, emitted, expanded, result>>

\* Lines 223-227.
F32CloseSection ==
    /\ pc = "sections"
    /\ F32CloseOneSection

\* Lines 229-232.
F32Process ==
    /\ pc = "sections"
    /\ ~F32Gt(h[1].base.time, current_section_end)
    /\ calls' = Append(calls, <<"process", h[1].base.n, h[1].last.n, h[1].base.time>>)
    /\ prev' = curr
    /\ curr' = next
    /\ next' = << >>
    /\ h' = << >>
    /\ pc' = "next"
    /\ UNCHANGED <<calculator, map, mods, idx, ticks, buf, last_pos, last_time, fruits,
                   droplets, underflow, last_direction, last_excess,
                   current_section_end, emitted, expanded, result>>

\* Lines 243-248.
F32FinalCloseSection ==
    /\ pc = "final_sections"
    /\ F32CloseOneSection

\* Lines 250-260.
F32FinalProcess ==
    /\ pc = "final_sections"
    /\ ~F32Gt(h[1].base.time, current_section_end)
    /\ LET cs == calls \o << <<"process", h[1].base.n, h[1].last.n, h[1].base.time>>,
                             <<"save_current_peak">> >>
       IN  /\ calls' = cs
           /\ result' = << [stars |-> StarsOf(cs), n_fruits |-> fruits,
                            n_droplets |-> droplets,
                            max_combo |-> fruits + droplets] >>
    /\ h' = << >>
    /\ pc' = "done"
    /\ UNCHANGED <<calculator, map, mods, idx, ticks, buf, last_pos, last_time, fruits,
                   droplets, underflow, prev, curr, next, last_direction,
                   last_excess, current_section_end, emitted, expanded>>

InitF32 == InitOn(F32Maps)

NextF32 ==
    \/ EarlyExit
    \/ F32Setup
    \/ NextCircle
    \/ HyperFirst
    \/ HyperNext
    \/ F32CloseSection
    \/ F32Process
    \/ LoopEnd
    \/ F32FinalCloseSection
    \/ F32FinalProcess

SpecF32 == InitF32 /\ [][NextF32]_vars

(***************************************************************************)
(* PpCalculator: the builder and accuracy(), lines 320-433.  A calculator  *)
(* is made for a map, its setters are called, each at most once, and then  *)
(* accuracy(acc) is called, which runs stars() when no attributes were     *)
(* given.  A usize that wrapped below zero is the term Wrapped(n), the     *)
(* value 2^64 - n.  The variable mods is the calculator's mods field;      *)
(* combo() and tiny_droplet_misses() set fields that accuracy() does not   *)
(* read, and are left out.                                                 *)
(***************************************************************************)
\* Line 417.
max_tiny_droplets == 0

\* usize::saturating_sub
saturating_sub(a, b) == IF a >= b THEN a - b ELSE 0

\* The values of acc, in halves of a point: 0.0, 1.0, 99.5 and 100.0.
Accuracies == {0, 2, 199, 200}

\* Line 420: (acc * n as f32).round() as usize, acc in halves of a point;
\* round() takes a half away from zero.
RoundedHits(acc, n) == (acc * n + 1) \div 2

Wrapped(n) == [modulo |-> "2^64", minus |-> n]

\* The maps a calculator is made for, and attributes a caller hands in.
CalculatorMaps ==
    { i \in GeneralMaps : Len(i.map.hit_objects) <= 2 /\ i.mods = NoMod }

GivenAttributes ==
    { [stars |-> <<"stars", 1>>, max_combo |-> 2, n_fruits |-> 2, n_droplets |-> 0],
      [stars |-> <<"stars", 1>>, max_combo |-> 5, n_fruits |-> 3, n_droplets |-> 2] }

starsVars == <<map, mods, idx, ticks, buf, last_pos, last_time, fruits,
               droplets, underflow, prev, curr, next, last_direction,
               last_excess, current_section_end, h, calls, emitted, expanded,
               result>>

\* Lines 349-353.
CalculatorAttributes ==
    /\ pc = "building"
    /\ calculator.attributes = << >>
    /\ \E a \in GivenAttributes :
           calculator' = [calculator EXCEPT !.attributes = <<a>>]
    /\ UNCHANGED <<pc, starsVars>>

\* Lines 367-371.
CalculatorFruits ==
    /\ pc = "building"
    /\ calculator.n_fruits = << >>
    /\ \E n \in 0..MaxPreset :
           calculator' = [calculator EXCEPT !.n_fruits = <<n>>]
    /\ UNCHANGED <<pc, starsVars>>

\* Lines 373-377.
CalculatorDroplets ==
    /\ pc = "building"
    /\ calculator.n_droplets = << >>
    /\ \E n \in 0..MaxPreset :
           calculator' = [calculator EXCEPT !.n_droplets = <<n>>]
    /\ UNCHANGED <<pc, starsVars>>

\* Lines 379-383.
CalculatorTinyDroplets ==
    /\ pc = "building"
    /\ calculator.n_tiny_droplets = << >>
    /\ \E n \in 0..MaxPreset :
           calculator' = [calculator EXCEPT !.n_tiny_droplets = <<n>>]
    /\ UNCHANGED <<pc, starsVars>>

\* Lines 391-395.
CalculatorMisses ==
    /\ pc = "building"
    /\ calculator.n_misses = 0
    /\ \E n \in 1..MaxMisses :
           calculator' = [calculator EXCEPT !.n_misses = n]
    /\ UNCHANGED <<pc, starsVars>>

\* Lines 400-403: accuracy(acc) is entered; stars() runs when no
\* attributes were given.
AccuracyCall ==
    /\ pc = "building"
    /\ \E a \in Accuracies : calculator' = [calculator EXCEPT !.acc = <<a>>]
    /\ pc' = IF calculator.attributes = << >> THEN "start" ELSE "accuracy"
    /\ UNCHANGED starsVars

\* Line 402: self.attributes.replace(stars(self.map, self.mods)).
AccuracyAttributes ==
    /\ pc = "done"
    /\ calculator' = [calculator EXCEPT !.attributes = result]
    /\ pc' = "accuracy"
    /\ UNCHANGED starsVars

\* Lines 405-425: the locals of accuracy().
HitResults(c) ==
    LET a == c.attributes[1]
        n_droplets == IF c.n_droplets # << >> THEN c.n_droplets[1]
                      ELSE saturating_sub(a.n_droplets, c.n_misses)
        n_fruits == IF c.n_fruits # << >> THEN c.n_fruits[1]
                    ELSE saturating_sub(a.max_combo,
                                        saturating_sub(c.n_misses, n_droplets))
        n_tiny_droplets ==
            IF c.n_tiny_droplets # << >> THEN c.n_tiny_droplets[1]
            ELSE saturating_sub(
                     saturating_sub(
                         RoundedHits(c.acc[1], a.max_combo + max_tiny_droplets),
                         n_fruits),
                     n_droplets)
    IN  [n_fruits |-> n_fruits, n_droplets |-> n_droplets,
         n_tiny_droplets |-> n_tiny_droplets,
         n_tiny_droplet_misses |-> USub(max_tiny_droplets, n_tiny_droplets)]

\* Lines 427-430.
WithHitResults(c, r, misses) ==
    [c EXCEPT !.n_fruits = <<r.n_fruits>>, !.n_droplets = <<r.n_droplets>>,
              !.n_tiny_droplets = <<r.n_tiny_droplets>>,
              !.n_tiny_droplet_misses = <<misses>>]

\* Lines 405-432, the subtraction of line 425 staying in usize.
AccuracyReturn ==
    /\ pc = "accuracy"
    /\ LET r == HitResults(calculator)
       IN  /\ ~r.n_tiny_droplet_misses.underflow
           /\ calculator' =
                  WithHitResults(calculator, r, r.n_tiny_droplet_misses.value)
    /\ pc' = "returned"
    /\ UNCHANGED starsVars

\* Line 425 going below zero in a build that checks overflow: it panics.
AccuracyOverflowPanic ==
    /\ pc = "accuracy"
    /\ HitResults(calculator).n_tiny_droplet_misses.underflow
    /\ calculator' = [calculator EXCEPT !.underflow = TRUE]
    /\ pc' = "panic"
    /\ UNCHANGED starsVars

\* Line 425 going below zero in a build that does not: it wraps.
AccuracyOverflowWrap ==
    /\ pc = "accuracy"
    /\ LET r == HitResults(calculator)
       IN  /\ r.n_tiny_droplet_misses.underflow
           /\ calculator' =
                  [WithHitResults(calculator, r, Wrapped(r.n_tiny_droplets))
                      EXCEPT !.underflow = TRUE]
    /\ pc' = "returned"
    /\ UNCHANGED starsVars

InitAcc ==
    /\ \E i \in CalculatorMaps : map = i.map /\ mods = i.mods
    /\ pc = "building"
    /\ calculator = NewCalculator
    /\ StarsLocals

NextAcc ==
    \/ CalculatorAttributes
    \/ CalculatorFruits
    \/ CalculatorDroplets
    \/ CalculatorTinyDroplets
    \/ CalculatorMisses
    \/ AccuracyCall
    \/ Next
    \/ AccuracyAttributes
    \/ AccuracyReturn
    \/ AccuracyOverflowPanic
    \/ AccuracyOverflowWrap

SpecAcc == InitAcc /\ [][NextAcc]_vars

(***************************************************************************)
(* Properties                                                              *)
(***************************************************************************)
Returned == pc = "done"

Panicked == pc = "panic"

Running == pc \notin {"done", "panic"}

ZeroAttributes ==
    [stars |-> <<"stars", 0>>, max_combo |-> 0, n_fruits |-> 0, n_droplets |-> 0]

\* C1: on a map with fewer than 2 hit objects stars() returns, without
\* failing, the zero-valued result (stars, n_fruits, n_droplets and
\* max_combo all 0), whatever the mods, and runs no slider expansion, no
\* hyperdash classification and no strain processing step.
C1_InsufficientInput ==
    Len(map.hit_objects) < 2 =>
        /\ pc \in {"start", "done"}
        /\ pc = "start" => ENABLED EarlyExit
        /\ Returned => result = <<ZeroAttributes>>
        /\ expanded = << >>
        /\ calls = << >>
        /\ emitted = << >>
        /\ idx = 0

C1_Witness ==
    /\ Len(map.hit_objects) = 1
    /\ map.hit_objects[1].kind = "Slider"
    /\ mods.hr
    /\ Returned

TwoObjectsNoSlider ==
    /\ Len(map.hit_objects) = 2
    /\ \A i \in 1..2 : map.hit_objects[i].kind \in {"Circle", "Spinner", "Hold"}

TwoCircles ==
    /\ Len(map.hit_objects) = 2
    /\ \A i \in 1..2 : map.hit_objects[i].kind = "Circle"

\* C2 as stated: on a map with exactly 2 hit objects, none a slider,
\* stars() completes and returns max_combo = 2 and n_droplets = 0.
C2_Original ==
    TwoObjectsNoSlider =>
        /\ ~Panicked
        /\ Returned => (result[1].max_combo = 2 /\ result[1].n_droplets = 0)

\* What stars() does on such a map: two circles give max_combo = 2,
\* n_fruits = 2 and n_droplets = 0; with a spinner or a hold among the two
\* the stream holds fewer than two catch objects and lines 198-199 unwrap
\* None, so stars() panics and never returns.
C2_TwoCircles ==
    TwoObjectsNoSlider =>
        /\ Running => ENABLED Next
        /\ IF TwoCircles
           THEN /\ ~Panicked
                /\ Returned => /\ result[1].max_combo = 2
                               /\ result[1].n_fruits = 2
                               /\ result[1].n_droplets = 0
           ELSE ~Returned

C2_Witness == TwoCircles /\ Returned /\ Len(emitted) = 2

\* The control point in force at time t: the latest one that is not after
\* t, and the default when there is none.
ActivePoint(points, t, default) ==
    LET before == { i \in 1..Len(points) : points[i].time <= t }
    IN  IF before = {} THEN default
        ELSE points[CHOOSE i \in before :
                        \A j \in before : points[j].time <= points[i].time]

ActiveTimingPoint(o) ==
    ActivePoint(map.timing_points, o.start_time, [time |-> 0, beat_len |-> 1000])

ActiveDifficultyPoint(o) ==
    ActivePoint(map.difficulty_points, o.start_time,
                [time |-> 0, speed_multiplier |-> 100])

\* The tick distance and the duration that slider e was expanded with are
\* those of the multipliers tick_spm and duration_spm (in hundredths).
UsesMultipliers(e, tick_spm, duration_spm) ==
    LET o == map.hit_objects[e.obj]
    IN  /\ e.locals.tick_distance = TickDistance(map, tick_spm)
        /\ e.locals.spm = duration_spm
        /\ e.locals.duration * map.sv * duration_spm
               = o.repeats * ActiveTimingPoint(o).beat_len * o.pixel_len

\* C3 as stated: the multiplier of the duration is 1.0 exactly when the
\* active timing point is earlier than the active difficulty point, and
\* the active difficulty point's multiplier otherwise; the tick distance
\* uses the unforced multiplier.
C3_Original ==
    \A k \in 1..Len(expanded) :
        LET o == map.hit_objects[expanded[k].obj]
            tp == ActiveTimingPoint(o)
            dp == ActiveDifficultyPoint(o)
        IN  UsesMultipliers(expanded[k], dp.speed_multiplier,
                            IF tp.time < dp.time THEN 100
                            ELSE dp.speed_multiplier)

\* C3 amended: the multiplier of the duration is 1.0 exactly when the
\* active timing point is later than the active difficulty point (its time
\* is greater; a missing point counts with time 0), and the active
\* difficulty point's multiplier otherwise; the tick distance uses the
\* unforced multiplier.
C3_SpeedMultiplier ==
    \A k \in 1..Len(expanded) :
        LET o == map.hit_objects[expanded[k].obj]
            tp == ActiveTimingPoint(o)
            dp == ActiveDifficultyPoint(o)
        IN  UsesMultipliers(expanded[k], dp.speed_multiplier,
                            IF tp.time > dp.time THEN 100
                            ELSE dp.speed_multiplier)

C3_Witness ==
    /\ Returned
    /\ \E k \in 1..Len(expanded) :
        LET o == map.hit_objects[expanded[k].obj]
        IN  /\ ActiveTimingPoint(o).time > ActiveDifficultyPoint(o).time
            /\ ActiveDifficultyPoint(o).speed_multiplier # 100
            /\ map.version >= 8
            /\ o.pixel_len > 0

Sorted(s) == \A i \in 1..(Len(s) - 1) : s[i].time <= s[i + 1].time

StartOrder ==
    \A i \in 1..(Len(map.hit_objects) - 1) :
        map.hit_objects[i].start_time <= map.hit_objects[i + 1].start_time

SliderInOrder(e) ==
    LET o == map.hit_objects[e.obj]
    IN  /\ o.repeats = 1 \/ e.locals.n_ticks = 0
        /\ \A j \in (e.obj + 1)..Len(map.hit_objects) :
               map.hit_objects[j].kind \in {"Circle", "Slider"}
                   => o.start_time + e.locals.duration
                          <= map.hit_objects[j].start_time

EvaluatedAs(e, kind) ==
    /\ e.locals.path_type = kind
    /\ e.locals.curve[1] = (CASE kind = "Linear" -> "linear"
                              [] kind = "Bezier" -> "bezier"
                              [] kind = "Catmull" -> "catmull"
                              [] kind = "PerfectCurve" -> "perfect")

\* Slider e yields what the same slider tagged Bezier yields.
SameAsBezier(e) ==
    LET o == map.hit_objects[e.obj]
        b == ExpandSlider(map, [o EXCEPT !.path_type = "Bezier"], << >>)
    IN  /\ e.locals.slider_objects = b.slider_objects
        /\ e.fruits = 1 + o.repeats
        /\ e.droplets = Len(b.slider_objects) - 1 - o.repeats

\* C6 as stated: PerfectArc with more than 3 control points is evaluated
\* as Bezier and yields what the Bezier-tagged slider yields; Bezier or
\* Catmull with exactly 2 control points is evaluated as Linear; in every
\* other case the curve kind used is the tag.
C6_Original ==
    \A k \in 1..Len(expanded) :
        LET o == map.hit_objects[expanded[k].obj]
            n == Len(o.curve_points)
        IN  IF o.path_type = "PerfectCurve" /\ n > 3
            THEN EvaluatedAs(expanded[k], "Bezier") /\ SameAsBezier(expanded[k])
            ELSE IF o.path_type \in {"Bezier", "Catmull"} /\ n = 2
            THEN EvaluatedAs(expanded[k], "Linear")
            ELSE EvaluatedAs(expanded[k], o.path_type)

\* C6 amended: PerfectArc with more than 3 control points is evaluated as
\* Bezier and yields what the Bezier-tagged slider yields; a slider with
\* exactly 2 control points is evaluated as Linear whatever its tag,
\* PerfectArc included; in every other case the curve kind used is the tag.
C6_PathKind ==
    \A k \in 1..Len(expanded) :
        LET o == map.hit_objects[expanded[k].obj]
            n == Len(o.curve_points)
        IN  IF o.path_type = "PerfectCurve" /\ n > 3
            THEN EvaluatedAs(expanded[k], "Bezier") /\ SameAsBezier(expanded[k])
            ELSE IF n = 2
            THEN EvaluatedAs(expanded[k], "Linear")
            ELSE EvaluatedAs(expanded[k], o.path_type)

C6_Witness ==
    /\ Returned
    /\ \E k \in 1..Len(expanded) :
        LET o == map.hit_objects[expanded[k].obj]
        IN  /\ o.path_type = "PerfectCurve"
            /\ Len(o.curve_points) = 2
            /\ expanded[k].locals.n_ticks >= 1

\* C7: a slider with repeats = 1 whose tick distance is at least its pixel
\* length yields exactly two catch objects, in this order: one at the
\* slider's position and start time, one at the path's end at start_time +
\* duration; it has no ticks, and adds 2 to fruits and 0 to droplets.
C7_ShortSlider ==
    \A k \in 1..Len(expanded) :
        LET e == expanded[k]
            o == map.hit_objects[e.obj]
            two == << [pos |-> <<"pos", o.pos>>, time |-> o.start_time],
                      [pos |-> point_at_distance(e.locals.curve, o.pixel_len),
                       time |-> o.start_time + e.locals.duration] >>
        IN  (o.repeats = 1 /\ e.locals.tick_distance >= o.pixel_len) =>
                /\ e.locals.n_ticks = 0
                /\ e.locals.slider_objects = two
                /\ e.fruits = 2
                /\ e.droplets = 0
                /\ \A i \in 1..Len(emitted) :
                       emitted[i].obj = e.obj <=> i \in {e.first, e.first + 1}
                /\ \A j \in 1..2 :
                       e.first + j - 1 <= Len(emitted) =>
                           /\ emitted[e.first + j - 1].pos = two[j].pos
                           /\ emitted[e.first + j - 1].time = two[j].time

C7_Witness ==
    /\ Returned
    /\ \E k \in 1..Len(expanded) :
        LET o == map.hit_objects[expanded[k].obj]
        IN  /\ o.repeats = 1
            /\ o.pixel_len > 0
            /\ expanded[k].locals.tick_distance = o.pixel_len
            /\ expanded[k].first = 1

\* How many calls of one kind precede place i of the log.
CallsBefore(name, i) == Cardinality({j \in 1..(i - 1) : calls[j][1] = name})

\* For every place of the log, how many calls of one kind precede it.
CountsBefore(name) == [i \in 1..(Len(calls) + 1) |-> CallsBefore(name, i)]

PastSetup == pc # "start" /\ ~TooFewObjects(map)

\* The k-th section end after the first one.
Boundary(k) ==
    FirstSectionEnd(map.hit_objects[1].start_time, SectionLen(mods))
        + k * SectionLen(mods)

\* C8: every start_new_section_from closes the next boundary, section_len
\* after the one closed before it, right after a save_current_peak, and the
\* transition processed next lies strictly after that boundary; at every
\* process call the transition's time is <= current_section_end, so every
\* boundary strictly before it has been closed; save_current_peak is called
\* only before a start_new_section_from and once more after the last
\* process, so on return the peaks are the boundaries closed plus one.
C8_SectionClosing ==
    /\ LET closed == CountsBefore("start_new_section_from")
           processed == CountsBefore("process")
       IN  \A i \in 1..Len(calls) :
            /\ calls[i][1] = "start_new_section_from" =>
                /\ calls[i][2] = Boundary(closed[i])
                /\ i > 1
                /\ calls[i - 1][1] = "save_current_peak"
                /\ \A j \in (i + 1)..Len(calls) :
                       (calls[j][1] = "process" /\ processed[j] = processed[i])
                           => calls[j][4] > calls[i][2]
            /\ calls[i][1] = "process" => calls[i][4] <= Boundary(closed[i])
            /\ calls[i][1] = "save_current_peak" =>
                \/ i < Len(calls) /\ calls[i + 1][1] = "start_new_section_from"
                \/ Returned /\ i = Len(calls) /\ i > 1
                            /\ calls[i - 1][1] = "process"
    /\ PastSetup =>
        current_section_end = Boundary(Len(CallsOf("start_new_section_from")))
    /\ Len(CallsOf("save_current_peak")) =
           Len(CallsOf("start_new_section_from"))
               + (IF Returned /\ PastSetup THEN 1 ELSE 0)

C8_Witness ==
    /\ Returned
    /\ \E i \in 1..(Len(calls) - 4) :
        /\ calls[i][1] = "process"
        /\ calls[i + 2][1] = "start_new_section_from"
        /\ calls[i + 4][1] = "start_new_section_from"
    /\ \E i \in 1..Len(calls) :
        /\ calls[i][1] = "process"
        /\ calls[i][4] = Boundary(CallsBefore("start_new_section_from", i))

\* C9: the k-th init_hyper_dash classifies the pair (p_k, p_k+1) of the
\* stream; the first is given direction 0 and half_catcher_width, each
\* later one what the call before it left in the accumulators; the k-th
\* transition processed is (last = p_k, base = p_k+1), and at least k
\* classifications precede it, k+1 when p_k+2 exists; on return
\* a stream of n points has had n-1 classifications, none of them of its
\* last point, and n-1 transitions.
C9_ForwardPass ==
    LET H == CallsOf("init_hyper_dash")
        P == CallsOf("process")
        Left(k) == init_hyper_dash(emitted[k], emitted[k + 1], H[k][4], H[k][5])
    IN  /\ \A k \in 1..Len(H) :
            /\ k + 1 <= Len(emitted)
            /\ H[k][2] = k
            /\ H[k][3] = k + 1
            /\ IF k = 1
               THEN H[k][4] = NoDirection /\ H[k][5] = half_catcher_width
               ELSE /\ H[k][4] = Left(k - 1).last_direction
                    /\ H[k][5] = Left(k - 1).last_excess
        /\ Len(H) >= 1 =>
            /\ last_direction = Left(Len(H)).last_direction
            /\ last_excess = Left(Len(H)).last_excess
        /\ \A k \in 1..Len(P) :
            /\ P[k][2] = k + 1
            /\ P[k][3] = k
            /\ P[k][4] = emitted[k + 1].time
        /\ LET classified == CountsBefore("init_hyper_dash")
               processed == CountsBefore("process")
           IN  \A i \in 1..Len(calls) :
                calls[i][1] = "process" =>
                    classified[i] >= (IF processed[i] + 3 <= Len(emitted)
                                      THEN processed[i] + 2
                                      ELSE processed[i] + 1)
        /\ (Returned /\ PastSetup) =>
            /\ Len(emitted) >= 2
            /\ Len(H) = Len(emitted) - 1
            /\ Len(P) = Len(emitted) - 1

C9_Witness ==
    /\ Returned
    /\ Len(emitted) >= 4
    /\ Len(CallsOf("init_hyper_dash")) = Len(emitted) - 1
    /\ Len(CallsOf("process")) = Len(emitted) - 1

\* The catch objects yielded so far that come from hit object i.
PointsOf(i) == Cardinality({n \in 1..Len(emitted) : emitted[n].obj = i})

\* The expansion of hit object i, a slider.
ExpansionOf(i) == CHOOSE k \in 1..Len(expanded) : expanded[k].obj = i

RECURSIVE SumOver(_, _)
SumOver(F(_), n) == IF n = 0 THEN 0 ELSE F(n) + SumOver(F, n - 1)

\* What the claim counts for hit object i: [points, fruits, droplets].
Counted(i) ==
    LET o == map.hit_objects[i]
    IN  CASE o.kind = "Circle" -> [points |-> 1, fruits |-> 1, droplets |-> 0]
          [] o.kind \in {"Spinner", "Hold"} ->
                [points |-> 0, fruits |-> 0, droplets |-> 0]
          [] o.kind = "Slider" ->
                LET T == expanded[ExpansionOf(i)].locals.n_ticks
                IN  [points |-> o.repeats * (T + 1) + 1,
                     fruits |-> 1 + o.repeats,
                     droplets |-> o.repeats * T]

CountedFruits(i) == Counted(i).fruits

CountedDroplets(i) == Counted(i).droplets

\* C10: the droplet subtraction never underflows; fruits + droplets is the
\* number of catch objects yielded or waiting in the slider being
\* flattened; a circle yields 1 point and counts 1 fruit, a spinner or
\* hold yields nothing and counts nothing, a slider with r repeats and T
\* ticks yields r*(T+1)+1 points and counts 1+r fruits and r*T droplets;
\* on return past the early exit max_combo = n_fruits + n_droplets = the
\* number of catch objects yielded.
C10_Counts ==
    /\ ~underflow
    /\ fruits + droplets = Len(emitted) + Len(buf)
    /\ fruits = SumOver(CountedFruits, idx)
    /\ droplets = SumOver(CountedDroplets, idx)
    /\ \A i \in 1..idx :
        /\ (i < idx \/ buf = << >>) => PointsOf(i) = Counted(i).points
        /\ map.hit_objects[i].kind = "Slider" =>
            /\ expanded[ExpansionOf(i)].fruits = Counted(i).fruits
            /\ expanded[ExpansionOf(i)].droplets = Counted(i).droplets
    /\ (Returned /\ PastSetup) =>
        /\ idx = Len(map.hit_objects)
        /\ result[1].n_fruits = fruits
        /\ result[1].n_droplets = droplets
        /\ result[1].max_combo = result[1].n_fruits + result[1].n_droplets
        /\ result[1].max_combo = Len(emitted)

C10_Witness ==
    /\ Returned
    /\ \E i, j, k \in 1..Len(map.hit_objects) :
        /\ map.hit_objects[i].kind = "Circle"
        /\ map.hit_objects[j].kind \in {"Spinner", "Hold"}
        /\ map.hit_objects[k].kind = "Slider"
        /\ map.hit_objects[k].repeats >= 2
        /\ expanded[ExpansionOf(k)].locals.n_ticks >= 1

\* C5, for the section catch-up loop: every iteration of `while h.base.time
\* > current_section_end` leaves current_section_end greater than it found
\* it.  The loop reads h.base.time, which it does not change, and
\* current_section_end: an iteration that does not raise the boundary is
\* followed by the same iteration for ever, and one that always raises it
\* ends, f32 values being finitely many.
C5_SectionLoopAdvances ==
    [][(pc \in {"sections", "final_sections"} /\ pc' = pc)
           => F32Gt(current_section_end', current_section_end)]_vars

\* C11: accuracy() never takes its usize subtraction below zero; when it
\* has returned, n_fruits, n_droplets, n_tiny_droplets and
\* n_tiny_droplet_misses are all set, n_tiny_droplets is at most
\* max_tiny_droplets, and n_tiny_droplet_misses is max_tiny_droplets -
\* n_tiny_droplets, a number that is not negative.
C11_NoUnderflow ==
    /\ ~calculator.underflow
    /\ pc = "returned" =>
        /\ calculator.n_fruits # << >>
        /\ calculator.n_droplets # << >>
        /\ calculator.n_tiny_droplets # << >>
        /\ calculator.n_tiny_droplet_misses # << >>
        /\ calculator.n_tiny_droplets[1] <= max_tiny_droplets
        /\ calculator.n_tiny_droplet_misses[1]
               = max_tiny_droplets - calculator.n_tiny_droplets[1]

====
